---- MODULE Spec2Model ----
(***************************************************************************)
(* A model of the scoring service of my_pr: the Store (store.py), the      *)
(* scoring functions (scoring.py) and the request objects, check_auth,     *)
(* method_handler and do_POST (api.py).                                    *)
(*                                                                         *)
(* Python values are tagged records, so that values of different Python    *)
(* types can be compared.  A Python str is a sequence of symbols; a symbol *)
(* is a character or a word that no operation of the program splits.       *)
(* A float is kept in tenths (1.5 is 15), an int as its decimal digits.     *)
(***************************************************************************)
EXTENDS Integers, Sequences, FiniteSets, TLC

VARIABLES
    retries,    \* Store.retries, fixed at construction
    client,     \* Store.client: the handle in use, by its number
    db,         \* the backend's keys: key -> [val, ttl]
    hour,       \* the wall clock, in hours since BaseDay 00:00
    last,       \* the call in flight: its input, store traffic and outcome
    hist,       \* the last completed get_score call, until the cache changes, or
                \* the last call check_auth accepted on the regular branch
    thr,        \* the callers that share the Store: where each is in its call
    objs        \* the request objects alive: class, kwargs, __init__'s place, __dict__

vars == <<retries, client, db, hour, last, hist, thr, objs>>

\* ------------------------------------------------------------ bounds
MaxRetries == 2
MaxPre == 2
MaxHour == 1

\* ------------------------------------------------------------ values
None == [t |-> "none"]
VStr(s) == [t |-> "str", s |-> s]
\* an int, by the digits of str(n): Python ints have no width
VInt(d) == [t |-> "int", d |-> d]
VFloat(x) == [t |-> "float", x |-> x]
VList(elems) == [t |-> "list", elems |-> elems]
VDict(items) == [t |-> "dict", items |-> items]

\* F(x), with x evaluated once
With(x, F(_)) == CHOOSE y \in {F(v) : v \in {x}} : TRUE

IsStr(v) == v.t = "str"
IsInt(v) == v.t = "int"

Digits == <<"0", "1", "2", "3", "4", "5", "6", "7", "8", "9">>

DigitVal(c) == CHOOSE d \in 0..9 : Digits[d + 1] = c

IsDigit(c) == \E d \in 0..9 : Digits[d + 1] = c

\* str(n) of a natural number
RECURSIVE NatStr(_)
NatStr(n) == IF n < 10 THEN <<Digits[n + 1]>>
             ELSE NatStr(n \div 10) \o <<Digits[(n % 10) + 1]>>

\* int(s) of a string of digits
RECURSIVE StrNat(_)
StrNat(s) == IF s = <<>> THEN 0
             ELSE 10 * StrNat(SubSeq(s, 1, Len(s) - 1)) + DigitVal(s[Len(s)])

\* repr of a float with one decimal, as the client library writes it
FloatRepr(x) == NatStr(x \div 10) \o <<".">> \o <<Digits[(x % 10) + 1]>>

\* the position of the first "." of s, 0 when there is none
DotPos(s) == IF \E i \in 1..Len(s) : s[i] = "."
             THEN CHOOSE i \in 1..Len(s) : s[i] = "." /\ \A j \in 1..(i - 1) : s[j] # "."
             ELSE 0

\* float(s), in tenths, of a decimal string with at most one decimal
ParseFloat(s) ==
    LET p == DotPos(s)
    IN  IF p = 0 THEN 10 * StrNat(s)
        ELSE 10 * StrNat(SubSeq(s, 1, p - 1))
             + (IF p < Len(s) THEN DigitVal(s[p + 1]) ELSE 0)

\* ------------------------------------------------------------ backend
\* What the backend answers to one attempt: "ok", a connection error ("conn")
\* or another failure of the client library ("other": a timeout, a response
\* error).  An oracle fixes the answers of the attempts of one call: the
\* answers of pre in turn, then tail for ever.
Outcomes == {"ok", "conn", "other"}

RECURSIVE SeqsUpTo(_, _)
SeqsUpTo(S, n) == IF n = 0 THEN {<<>>}
                  ELSE LET shorter == SeqsUpTo(S, n - 1)
                       IN  shorter \cup {Append(q, x) : q \in shorter, x \in S}

\* The answers of the backend to the attempts of one call: those of pre in
\* turn, then tail for ever. A prefix that ends in the tail's own outcome is
\* the schedule of the shorter prefix, so it is left out.
Oracles ==
    { o \in [pre : SeqsUpTo(Outcomes, MaxPre), tail : Outcomes] :
        o.pre = <<>> \/ o.pre[Len(o.pre)] # o.tail }

OHead(o) == IF o.pre # <<>> THEN Head(o.pre) ELSE o.tail

ONext(o) == IF o.pre # <<>> THEN [o EXCEPT !.pre = Tail(@)] ELSE o

\* GET and SETEX as the backend applies them: [val, db]
Apply(cmd, d) ==
    IF cmd.name = "get"
    THEN [val |-> IF cmd.key \in DOMAIN d THEN VStr(d[cmd.key].val) ELSE None,
          db |-> d]
    ELSE [val |-> None,
          db |-> [k \in DOMAIN d \cup {cmd.key} |->
                    IF k = cmd.key
                    THEN [val |-> IF cmd.value.t = "float" THEN FloatRepr(cmd.value.x)
                                  ELSE cmd.value.s,
                          ttl |-> cmd.ttl]
                    ELSE d[k]]]

\* ------------------------------------------------------------ Store
\* The state a Store call runs in: s.client and s.db change as it runs, s.orc
\* is what is left of the oracle, s.log the traffic so far.
StoreState(orc) == [retries |-> retries, client |-> client, db |-> db,
                    orc |-> orc, log |-> <<>>]

Raise(s, exc) == [s |-> s, out |-> "raise", exc |-> exc, val |-> None]

Return(s, val) == [s |-> s, out |-> "return", exc |-> "", val |-> val]

\* Store._connect: a new client object replaces self.client
Connect(s) ==
    [s EXCEPT !.client = @ + 1,
              !.log = Append(@, [e |-> "connect", handle |-> s.client + 1])]

\* One pass of the loop of Store._execute_with_retry; h is the handle the
\* bound method func belongs to.
RECURSIVE Attempt(_, _, _, _)
Attempt(s, h, cmd, attempt) ==
    IF attempt >= s.retries
    THEN Raise(s, "ConnectionError")
    ELSE LET o == OHead(s.orc)
             s1 == [s EXCEPT !.orc = ONext(@),
                             !.log = Append(@, [e |-> "attempt", cmd |-> cmd.name,
                                                key |-> cmd.key, handle |-> h,
                                                out |-> o])]
         IN  IF o = "ok"
             THEN LET r == Apply(cmd, s1.db)
                  IN  Return([s1 EXCEPT !.db = r.db], r.val)
             ELSE IF o = "conn"
             THEN IF attempt = s.retries - 1
                  THEN Raise(s1, "ConnectionError")
                  ELSE Attempt(Connect(s1), h, cmd, attempt + 1)
             ELSE Raise(s1, "OtherError")

\* Store._execute_with_retry with one pass too many (range(self.retries + 1))
ExecuteWithRetryOneMore(s, h, cmd) == Attempt([s EXCEPT !.retries = @ + 1], h, cmd, 0)

ExecuteWithRetry(s, h, cmd) == Attempt(s, h, cmd, 0)

\* Store.get that reconnects before its first attempt
StoreGetReconnectsFirst(s, key) ==
    ExecuteWithRetry(Connect(s), s.client + 1, [name |-> "get", key |-> key])

\* Store.get: self.client.get is bound before the call
StoreGet(s, key) == ExecuteWithRetry(s, s.client, [name |-> "get", key |-> key])

\* cache_get that lets the connection error of the final attempt through
StoreCacheGetPropagates(s, key) ==
    ExecuteWithRetry(s, s.client, [name |-> "get", key |-> key])

\* Store.cache_get
StoreCacheGet(s, key) ==
    With(ExecuteWithRetry(s, s.client, [name |-> "get", key |-> key]),
         LAMBDA r : IF r.out = "raise" /\ r.exc = "ConnectionError"
                    THEN Return(r.s, None)
                    ELSE r)

\* Store.cache_set
StoreCacheSet(s, key, value, ttl) ==
    With(ExecuteWithRetry(s, s.client, [name |-> "setex", key |-> key,
                                        ttl |-> ttl, value |-> value]),
         LAMBDA r : IF r.out = "raise" /\ r.exc = "ConnectionError"
                    THEN Return(r.s, None)
                    ELSE IF r.out = "return" THEN Return(r.s, None)
                    ELSE r)

\* ------------------------------------------------------------ dates
IsLeap(y) == (y % 4 = 0 /\ y % 100 # 0) \/ y % 400 = 0

DaysInMonth(y, m) ==
    IF m = 2 THEN (IF IsLeap(y) THEN 29 ELSE 28)
    ELSE IF m \in {4, 6, 9, 11} THEN 30 ELSE 31

RECURSIVE DaysBeforeMonth(_, _)
DaysBeforeMonth(y, m) ==
    IF m = 1 THEN 0 ELSE DaysBeforeMonth(y, m - 1) + DaysInMonth(y, m - 1)

\* date.toordinal(): the days from 0001-01-01, which is day 1
Ordinal(date) ==
    LET y1 == date.y - 1
    IN  y1 * 365 + (y1 \div 4) - (y1 \div 100) + (y1 \div 400)
        + DaysBeforeMonth(date.y, date.m) + date.d

AllDigits(s) == \A i \in 1..Len(s) : IsDigit(s[i])

\* datetime.strptime(s, "%d.%m.%Y"): [ok, y, m, d]
Strptime(s) ==
    LET dots == {i \in 1..Len(s) : s[i] = "."}
        bad == [ok |-> FALSE, y |-> 0, m |-> 0, d |-> 0]
    IN  IF Cardinality(dots) # 2 THEN bad
        ELSE LET p1 == CHOOSE i \in dots : \A j \in dots : i <= j
                 p2 == CHOOSE i \in dots : \A j \in dots : j <= i
                 ds == SubSeq(s, 1, p1 - 1)
                 ms == SubSeq(s, p1 + 1, p2 - 1)
                 ys == SubSeq(s, p2 + 1, Len(s))
             IN  IF ~ (/\ Len(ds) \in {1, 2} /\ AllDigits(ds)
                       /\ Len(ms) \in {1, 2} /\ AllDigits(ms)
                       /\ Len(ys) = 4 /\ AllDigits(ys))
                 THEN bad
                 ELSE LET d == StrNat(ds)
                          m == StrNat(ms)
                          y == StrNat(ys)
                      IN  IF /\ y >= 1 /\ m \in 1..12
                             /\ d >= 1 /\ d <= DaysInMonth(y, m)
                          THEN [ok |-> TRUE, y |-> y, m |-> m, d |-> d]
                          ELSE bad

RECURSIVE ZeroPad(_, _)
ZeroPad(s, width) == IF Len(s) >= width THEN s ELSE ZeroPad(<<"0">> \o s, width)

\* date.strftime("%Y%m%d")
StrftimeYmd(date) ==
    ZeroPad(NatStr(date.y), 4) \o ZeroPad(NatStr(date.m), 2) \o ZeroPad(NatStr(date.d), 2)

\* ------------------------------------------------------------ scoring.py
\* the time-to-live get_score gives its cache entries
TTL == 60 * 60

Truthy(v) ==
    CASE v.t = "none" -> FALSE
      [] v.t = "str" -> v.s # <<>>
      [] v.t = "int" -> v.d # <<"0">>
      [] v.t = "float" -> v.x # 0
      [] v.t = "list" -> v.elems # <<>>
      [] v.t = "dict" -> v.items # <<>>

\* str(v) of a str or an int
PyStr(v) == IF v.t = "str" THEN v.s ELSE v.d

\* hashlib.md5(s).hexdigest(), taken as injective
Md5Hex(s) == <<"md5(">> \o s \o <<")">>

\* key_parts of get_score, joined
KeyParts(a) ==
    (IF Truthy(a.first_name) THEN a.first_name.s ELSE <<>>)
    \o (IF Truthy(a.last_name) THEN a.last_name.s ELSE <<>>)
    \o (IF Truthy(a.phone) THEN PyStr(a.phone) ELSE <<>>)
    \o (IF Truthy(a.birthday) THEN StrftimeYmd(Strptime(a.birthday.s)) ELSE <<>>)

\* the key with the email in it: what keying on every score input would give
ScoreKeyWithEmail(a) ==
    <<"uid", ":">> \o Md5Hex(KeyParts(a) \o (IF Truthy(a.email) THEN a.email.s ELSE <<>>))

ScoreKey(a) == <<"uid", ":">> \o Md5Hex(KeyParts(a))

\* the score with the gender counted by its truth value, so that 0 is left out
ComputeScoreGenderTruthy(a) ==
    (IF Truthy(a.phone) THEN 15 ELSE 0)
    + (IF Truthy(a.email) THEN 15 ELSE 0)
    + (IF Truthy(a.birthday) /\ Truthy(a.gender) THEN 15 ELSE 0)
    + (IF Truthy(a.first_name) /\ Truthy(a.last_name) THEN 5 ELSE 0)

\* the score computed on a cache miss, in tenths
ComputeScore(a) ==
    (IF Truthy(a.phone) THEN 15 ELSE 0)
    + (IF Truthy(a.email) THEN 15 ELSE 0)
    + (IF Truthy(a.birthday) /\ a.gender # None THEN 15 ELSE 0)
    + (IF Truthy(a.first_name) /\ Truthy(a.last_name) THEN 5 ELSE 0)

IsFloatStr(s) ==
    /\ \A i \in 1..Len(s) : IsDigit(s[i]) \/ s[i] = "."
    /\ Cardinality({i \in 1..Len(s) : s[i] = "."}) <= 1
    /\ \E i \in 1..Len(s) : IsDigit(s[i])

\* get_score: the result of a Store call, and whether the score was computed
\* get_score after a cache miss: the score is computed and written
ScoreMiss(s, key, score) ==
    With(StoreCacheSet(s, key, VFloat(score), TTL),
         LAMBDA cs : IF cs.out = "raise" THEN cs @@ [computed |-> TRUE]
                     ELSE Return(cs.s, VFloat(score)) @@ [computed |-> TRUE])

\* get_score from the answer cg of the cache on
ScoreFrom(cg, key, a) ==
    IF cg.out = "raise" THEN cg @@ [computed |-> FALSE]
    ELSE IF cg.val # None
    THEN (IF IsFloatStr(cg.val.s)
          THEN Return(cg.s, VFloat(ParseFloat(cg.val.s)))
          ELSE Raise(cg.s, "ValueError")) @@ [computed |-> FALSE]
    ELSE ScoreMiss(cg.s, key, ComputeScore(a))

GetScore(s, a) ==
    IF Truthy(a.birthday) /\ ~ Strptime(a.birthday.s).ok
    THEN Raise(s, "ValueError") @@ [computed |-> FALSE]
    ELSE With(ScoreKey(a),
              LAMBDA key : With(StoreCacheGet(s, key),
                                LAMBDA cg : ScoreFrom(cg, key, a)))

\* json.loads of the text of an array of strings: [ok, elems]
RECURSIVE JsonElems(_)
JsonElems(t) ==
    LET bad == [ok |-> FALSE, elems |-> <<>>]
        closing == {i \in 2..Len(t) : t[i] = "\""}
    IN  IF t = <<>> \/ t[1] # "\"" \/ closing = {} THEN bad
        ELSE LET c == CHOOSE i \in closing : \A j \in closing : i <= j
                 str == VStr(SubSeq(t, 2, c - 1))
                 rest == SubSeq(t, c + 1, Len(t))
                 more == IF Len(rest) >= 2 /\ rest[2] = " "
                         THEN SubSeq(rest, 3, Len(rest))
                         ELSE SubSeq(rest, 2, Len(rest))
             IN  IF rest = <<>> THEN [ok |-> TRUE, elems |-> <<str>>]
                 ELSE IF rest[1] # "," THEN bad
                 ELSE LET r == JsonElems(more)
                      IN  [ok |-> r.ok, elems |-> <<str>> \o r.elems]

JsonLoads(t) ==
    IF Len(t) < 2 \/ t[1] # "[" \/ t[Len(t)] # "]"
    THEN [ok |-> FALSE, elems |-> <<>>]
    ELSE IF Len(t) = 2 THEN [ok |-> TRUE, elems |-> <<>>]
    ELSE JsonElems(SubSeq(t, 2, Len(t) - 1))

\* the key of get_interests without its prefix
InterestKeyBare(cid) == PyStr(cid)

\* the key get_interests reads
InterestKey(cid) == <<"i", ":">> \o PyStr(cid)

\* get_interests
GetInterests(s, cid) ==
    With(StoreGet(s, InterestKey(cid)),
         LAMBDA r : IF r.out = "raise" THEN r
                    ELSE IF ~ Truthy(r.val) THEN Return(r.s, VList(<<>>))
                    ELSE With(JsonLoads(r.val.s),
                              LAMBDA j : IF j.ok THEN Return(r.s, VList(j.elems))
                                         ELSE Raise(r.s, "ValueError")))

\* ------------------------------------------------------------ api.py: fields
SALT == <<"O", "t", "u", "s">>

ADMIN_LOGIN == <<"admin">>

ADMIN_SALT == <<"4", "2">>

OK == 200

BAD_REQUEST == 400

FORBIDDEN == 403

NOT_FOUND == 404

INVALID_REQUEST == 422

INTERNAL_ERROR == 500

\* ERRORS: the default text of each error code
ERRORS == [c \in {BAD_REQUEST, FORBIDDEN, NOT_FOUND, INVALID_REQUEST, INTERNAL_ERROR} |->
             CASE c = BAD_REQUEST -> <<"Bad Request">>
               [] c = FORBIDDEN -> <<"Forbidden">>
               [] c = NOT_FOUND -> <<"Not Found">>
               [] c = INVALID_REQUEST -> <<"Invalid Request">>
               [] c = INTERNAL_ERROR -> <<"Internal Server Error">>]

\* the moment the clock shows at hour 0
BaseDate == [y |-> 2026, m |-> 11, d |-> 1]

NextDay(date) ==
    IF date.d < DaysInMonth(date.y, date.m) THEN [date EXCEPT !.d = @ + 1]
    ELSE IF date.m < 12 THEN [date EXCEPT !.m = @ + 1, !.d = 1]
    ELSE [y |-> date.y + 1, m |-> 1, d |-> 1]

RECURSIVE AddDays(_, _)
AddDays(date, n) == IF n = 0 THEN date ELSE AddDays(NextDay(date), n - 1)

\* datetime.datetime.now() at clock h: the date and the hour of the day
Now(h) == [date |-> AddDays(BaseDate, h \div 24), hh |-> h % 24]

\* datetime.datetime.now().strftime("%Y%m%d%H")
NowStr(h) == StrftimeYmd(Now(h).date) \o ZeroPad(NatStr(Now(h).hh), 2)

Ok(val) == [ok |-> TRUE, err |-> <<>>, val |-> val]

Err(msg) == [ok |-> FALSE, err |-> msg, val |-> None]

\* int(s) of a string of digits: the leading zeros go
RECURSIVE StripZeros(_)
StripZeros(s) == IF Len(s) > 1 /\ s[1] = "0" THEN StripZeros(Tail(s)) ELSE s

\* CharField.validate
CharValidate(f, value) ==
    IF ~ IsStr(value) THEN Err(f.name \o <<" must be a string">>)
    ELSE IF ~ f.nullable /\ value.s = <<>> THEN Err(f.name \o <<" cannot be empty">>)
    ELSE Ok(value)

\* EmailField.validate
EmailValidate(f, value) ==
    With(CharValidate(f, value),
         LAMBDA c : IF ~ c.ok THEN c
                    ELSE IF value.s # <<>>
                            /\ ~ \E i \in 1..Len(value.s) : value.s[i] = "@"
                    THEN Err(<<"invalid email">>)
                    ELSE Ok(value))

\* PhoneField.validate
PhoneValidate(f, value) ==
    IF IsStr(value) /\ ~ (value.s # <<>> /\ AllDigits(value.s))
    THEN Err(<<"phone must be digits">>)
    ELSE LET v == IF IsStr(value) THEN VInt(StripZeros(value.s)) ELSE value
         IN  IF ~ IsInt(v) THEN Err(<<"phone must be int or string of digits">>)
             ELSE IF Len(v.d) # 11 \/ v.d[1] # "7"
             THEN Err(<<"phone must be 11 digits starting with 7">>)
             ELSE Ok(v)

\* DateField.validate
DateValidate(f, value) ==
    IF ~ IsStr(value) THEN Err(<<"date must be string">>)
    ELSE IF ~ Strptime(value.s).ok THEN Err(<<"invalid date format">>)
    ELSE Ok(value)

\* BirthDayField.validate at clock h: timedelta(days=70 * 365)
BirthDayValidate(f, value, h) ==
    With(DateValidate(f, value),
         LAMBDA dv : IF ~ dv.ok THEN dv
                     ELSE IF Ordinal(Strptime(value.s)) * 24
                               < (Ordinal(Now(h).date) - 70 * 365) * 24 + Now(h).hh
                     THEN Err(<<"birthday too old">>)
                     ELSE Ok(value))

\* GenderField.validate
GenderValidate(f, value) ==
    IF ~ IsInt(value) \/ value.d \notin {<<"0">>, <<"1">>, <<"2">>}
    THEN Err(<<"gender must be 0, 1 or 2">>)
    ELSE Ok(value)

\* ClientIDsField.validate
ClientIDsValidate(f, value) ==
    IF value.t # "list" THEN Err(<<"client_ids must be list">>)
    ELSE IF value.elems = <<>> THEN Err(<<"client_ids cannot be empty">>)
    ELSE IF \E i \in 1..Len(value.elems) : ~ IsInt(value.elems[i])
    THEN Err(<<"client_ids must be list of ints">>)
    ELSE Ok(value)

\* ArgumentsField.validate
ArgumentsValidate(f, value) ==
    IF value.t # "dict" THEN Err(<<"arguments must be a dict">>) ELSE Ok(value)

\* validate of the class of field f
Validate(f, value, h) ==
    CASE f.kind = "Char" -> CharValidate(f, value)
      [] f.kind = "Email" -> EmailValidate(f, value)
      [] f.kind = "Phone" -> PhoneValidate(f, value)
      [] f.kind = "Date" -> DateValidate(f, value)
      [] f.kind = "BirthDay" -> BirthDayValidate(f, value, h)
      [] f.kind = "Gender" -> GenderValidate(f, value)
      [] f.kind = "ClientIDs" -> ClientIDsValidate(f, value)
      [] f.kind = "Arguments" -> ArgumentsValidate(f, value)

\* Field.__set__: the value bound to the attribute, or the error
FieldSet(f, value, h) ==
    IF value = None /\ f.required THEN Err(f.name \o <<" is required">>)
    ELSE IF value = None /\ ~ f.nullable THEN Err(f.name \o <<" cannot be null">>)
    ELSE IF value # None THEN Validate(f, value, h)
    ELSE Ok(value)

Field(name, kind, required, nullable) ==
    [name |-> name, kind |-> kind, required |-> required, nullable |-> nullable]

\* ------------------------------------------------------------ api.py: requests
\* A dict is the sequence of its <<key, value>> items, in insertion order.
HasKey(items, key) == \E i \in 1..Len(items) : items[i][1] = key

DictGet(items, key) ==
    IF HasKey(items, key)
    THEN items[CHOOSE i \in 1..Len(items) : items[i][1] = key][2]
    ELSE None

\* d[key] = value
DictSet(items, key, value) ==
    IF HasKey(items, key)
    THEN [i \in 1..Len(items) |-> IF items[i][1] = key THEN <<key, value>> ELSE items[i]]
    ELSE Append(items, <<key, value>>)

\* Field.__get__: the instance's own value, None when none was bound
Attr(obj, name) == DictGet(obj, name)

\* The loop of a request's __init__ from item i on; strict is MethodRequest's
\* check of the key.  obj is the instance's __dict__.
RECURSIVE SetAttrs(_, _, _, _, _, _)
SetAttrs(fields, strict, items, i, obj, h) ==
    IF i > Len(items) THEN [ok |-> TRUE, err |-> <<>>, obj |-> obj]
    ELSE LET key == items[i][1]
             value == items[i][2]
         IN  IF strict /\ key \notin DOMAIN fields
             THEN [ok |-> FALSE, err |-> <<"Unknown field: ">> \o key, obj |-> obj]
             ELSE IF key \in DOMAIN fields
             THEN With(FieldSet(fields[key], value, h),
                       LAMBDA r : IF r.ok
                                  THEN SetAttrs(fields, strict, items, i + 1,
                                                DictSet(obj, key, r.val), h)
                                  ELSE [ok |-> FALSE, err |-> r.err, obj |-> obj])
             ELSE SetAttrs(fields, strict, items, i + 1, DictSet(obj, key, value), h)

FieldsOf(decls) ==
    [n \in {d.name : d \in decls} |-> CHOOSE d \in decls : d.name = n]

ClientsInterestsFields ==
    FieldsOf({Field(<<"client_ids">>, "ClientIDs", TRUE, TRUE),
              Field(<<"date">>, "Date", FALSE, TRUE)})

OnlineScoreFields ==
    FieldsOf({Field(<<"first_name">>, "Char", FALSE, TRUE),
              Field(<<"last_name">>, "Char", FALSE, TRUE),
              Field(<<"email">>, "Email", FALSE, TRUE),
              Field(<<"phone">>, "Phone", FALSE, TRUE),
              Field(<<"birthday">>, "BirthDay", FALSE, TRUE),
              Field(<<"gender">>, "Gender", FALSE, TRUE)})

MethodRequestFields ==
    FieldsOf({Field(<<"account">>, "Char", FALSE, TRUE),
              Field(<<"login">>, "Char", TRUE, TRUE),
              Field(<<"token">>, "Char", TRUE, TRUE),
              Field(<<"arguments">>, "Arguments", TRUE, TRUE),
              Field(<<"method">>, "Char", TRUE, TRUE)})

\* ClientsInterestsRequest(**items)
ClientsInterestsRequest(items, h) ==
    SetAttrs(ClientsInterestsFields, FALSE, items, 1, <<>>, h)

\* OnlineScoreRequest(**items)
OnlineScoreRequest(items, h) == SetAttrs(OnlineScoreFields, FALSE, items, 1, <<>>, h)

\* MethodRequest(**items)
MethodRequest(items, h) == SetAttrs(MethodRequestFields, TRUE, items, 1, <<>>, h)

\* MethodRequest.is_admin
IsAdmin(req) == Attr(req, <<"login">>) = VStr(ADMIN_LOGIN)

\* hashlib.sha512(s).hexdigest(), taken as injective
Sha512Hex(s) == <<"sha512(">> \o s \o <<")">>

\* str(v or "")
StrOrEmpty(v) == IF Truthy(v) THEN PyStr(v) ELSE <<>>

\* the digest check_auth expects of req at clock h
Digest(req, h) ==
    IF IsAdmin(req) THEN Sha512Hex(NowStr(h) \o ADMIN_SALT)
    ELSE Sha512Hex(StrOrEmpty(Attr(req, <<"account">>))
                   \o StrOrEmpty(Attr(req, <<"login">>)) \o SALT)

\* check_auth that accepts the digest of either scheme
CheckAuthEitherScheme(req, h) ==
    \/ VStr(Sha512Hex(NowStr(h) \o ADMIN_SALT)) = Attr(req, <<"token">>)
    \/ VStr(Sha512Hex(StrOrEmpty(Attr(req, <<"account">>))
                      \o StrOrEmpty(Attr(req, <<"login">>)) \o SALT))
           = Attr(req, <<"token">>)

\* check_auth
CheckAuth(req, h) == VStr(Digest(req, h)) = Attr(req, <<"token">>)

\* ------------------------------------------------------------ api.py: method_handler
\* What method_handler hands back: the response and the code, or the
\* exception it lets through; ctx is what it wrote into the caller's context.
Respond(s, response, code, ctx) ==
    [s |-> s, out |-> "return", exc |-> "", val |-> response, code |-> code, ctx |-> ctx]

Fail(r, ctx) ==
    [s |-> r.s, out |-> "raise", exc |-> r.exc, val |-> None, code |-> 0, ctx |-> ctx]

NotEmpty(v) == v # None /\ v # VStr(<<>>)

\* the pair rule with a member counted by its truth: gender 0 counts as absent
PairRuleTruthy(obj) ==
    \E pair \in {<<<<"phone">>, <<"email">>>>,
                 <<<<"first_name">>, <<"last_name">>>>,
                 <<<<"gender">>, <<"birthday">>>>} :
        Truthy(Attr(obj, pair[1])) /\ Truthy(Attr(obj, pair[2]))

\* the pair rule of the online_score branch
PairRule(obj) ==
    \E pair \in {<<<<"phone">>, <<"email">>>>,
                 <<<<"first_name">>, <<"last_name">>>>,
                 <<<<"gender">>, <<"birthday">>>>} :
        NotEmpty(Attr(obj, pair[1])) /\ NotEmpty(Attr(obj, pair[2]))

\* ctx["has"]: the keys of the arguments whose value is neither None nor ""
Has(items) ==
    LET kept == SelectSeq(items, LAMBDA it : NotEmpty(it[2]))
    IN  [i \in 1..Len(kept) |-> kept[i][1]]

\* the arguments of get_score, read off the request object
ScoreArgsOf(obj) ==
    [phone |-> Attr(obj, <<"phone">>), email |-> Attr(obj, <<"email">>),
     birthday |-> Attr(obj, <<"birthday">>), gender |-> Attr(obj, <<"gender">>),
     first_name |-> Attr(obj, <<"first_name">>), last_name |-> Attr(obj, <<"last_name">>)]

\* the score of every caller taken from get_score, the admin's too
ScoreForNoBypass(s, req, obj) == GetScore(s, ScoreArgsOf(obj))

\* the score of the online_score branch: 42 for the admin
ScoreFor(s, req, obj) ==
    IF IsAdmin(req) THEN Return(s, VInt(<<"4", "2">>)) @@ [computed |-> FALSE]
    ELSE GetScore(s, ScoreArgsOf(obj))

\* the online_score branch once the arguments are validated into obj
Scored(s, req, arguments, obj) ==
    IF ~ PairRule(obj)
    THEN Respond(s, VStr(<<"at least one pair must be filled">>), INVALID_REQUEST, <<>>)
    ELSE With(<<ScoreFor(s, req, obj), <<<<<<"has">>, Has(arguments.items)>>>>>>,
              LAMBDA rc : IF rc[1].out = "raise" THEN Fail(rc[1], rc[2])
                          ELSE Respond(rc[1].s, VDict(<<<<<<"score">>, rc[1].val>>>>),
                                       OK, rc[2]))

OnlineScore(s, req, h) ==
    With(Attr(req, <<"arguments">>),
         LAMBDA arguments :
            IF arguments.t # "dict" THEN Fail(Raise(s, "TypeError"), <<>>)
            ELSE With(OnlineScoreRequest(arguments.items, h),
                      LAMBDA a : IF ~ a.ok
                                 THEN Respond(s, VStr(a.err), INVALID_REQUEST, <<>>)
                                 ELSE Scored(s, req, arguments, a.obj)))

\* the loop of the clients_interests branch from id i on
RECURSIVE Interests(_, _, _, _)
Interests(s, ids, i, response) ==
    IF i > Len(ids) THEN Return(s, VDict(response))
    ELSE With(GetInterests(s, ids[i]),
              LAMBDA r : IF r.out = "raise" THEN r
                         ELSE Interests(r.s, ids, i + 1,
                                        DictSet(response, PyStr(ids[i]), r.val)))

\* the clients_interests branch once the arguments are validated: ids is
\* args_obj.client_ids
Interested(s, ids) ==
    IF ids = None THEN Fail(Raise(s, "TypeError"), <<>>)
    ELSE With(<<Interests(s, ids.elems, 1, <<>>), <<<<<<"nclients">>, Len(ids.elems)>>>>>>,
              LAMBDA rc : IF rc[1].out = "raise" THEN Fail(rc[1], rc[2])
                          ELSE Respond(rc[1].s, rc[1].val, OK, rc[2]))

ClientsInterests(s, req, h) ==
    With(Attr(req, <<"arguments">>),
         LAMBDA arguments :
            IF arguments.t # "dict" THEN Fail(Raise(s, "TypeError"), <<>>)
            ELSE With(ClientsInterestsRequest(arguments.items, h),
                      LAMBDA a : IF ~ a.ok
                                 THEN Respond(s, VStr(a.err), INVALID_REQUEST, <<>>)
                                 ELSE Interested(s, Attr(a.obj, <<"client_ids">>))))

\* the routing with every method but clients_interests taken for online_score
RouteDefaultsToScore(s, req, h) ==
    IF Attr(req, <<"method">>) = VStr(<<"clients_interests">>)
    THEN ClientsInterests(s, req, h)
    ELSE OnlineScore(s, req, h)

\* the routing of an authenticated request by its method
Route(s, req, h) ==
    IF Attr(req, <<"method">>) = VStr(<<"online_score">>) THEN OnlineScore(s, req, h)
    ELSE IF Attr(req, <<"method">>) = VStr(<<"clients_interests">>)
    THEN ClientsInterests(s, req, h)
    ELSE Respond(s, VStr(<<"unknown method">>), NOT_FOUND, <<>>)

KnownMethod(req) ==
    Attr(req, <<"method">>) \in {VStr(<<"online_score">>), VStr(<<"clients_interests">>)}

\* method_handler with the method looked up before the caller is authenticated
MethodHandlerRouteFirst(s, body, h) ==
    IF body.t # "dict" THEN Fail(Raise(s, "TypeError"), <<>>)
    ELSE With(MethodRequest(body.items, h),
              LAMBDA req : IF ~ req.ok
                           THEN Respond(s, VStr(req.err), INVALID_REQUEST, <<>>)
                           ELSE IF ~ KnownMethod(req.obj)
                           THEN Respond(s, VStr(<<"unknown method">>), NOT_FOUND, <<>>)
                           ELSE IF ~ CheckAuth(req.obj, h)
                           THEN Respond(s, VStr(<<"Forbidden">>), FORBIDDEN, <<>>)
                           ELSE Route(s, req.obj, h))

\* method_handler on the request body, at clock h
MethodHandler(s, body, h) ==
    IF body.t # "dict" THEN Fail(Raise(s, "TypeError"), <<>>)
    ELSE With(MethodRequest(body.items, h),
              LAMBDA req : IF ~ req.ok
                           THEN Respond(s, VStr(req.err), INVALID_REQUEST, <<>>)
                           ELSE IF ~ CheckAuth(req.obj, h)
                           THEN Respond(s, VStr(<<"Forbidden">>), FORBIDDEN, <<>>)
                           ELSE Route(s, req.obj, h))

\* ------------------------------------------------------------ api.py: do_POST
\* path.strip("/")
RECURSIVE StripSlashes(_)
StripSlashes(path) ==
    IF path # <<>> /\ path[1] = "/" THEN StripSlashes(Tail(path))
    ELSE IF path # <<>> /\ path[Len(path)] = "/"
    THEN StripSlashes(SubSeq(path, 1, Len(path) - 1))
    ELSE path

\* MainHTTPHandler.router
Router == {<<"method">>}

\* the body do_POST writes for response and code
Written(response, code) ==
    IF code \notin DOMAIN ERRORS THEN [response |-> response, code |-> code]
    ELSE [error |-> IF Truthy(response) THEN response ELSE VStr(ERRORS[code]),
          code |-> code]

\* do_POST with the handler's exception swallowed: the code stays as it was
DoPostSwallows(s, raw, path, h) ==
    LET request == IF raw.kind = "json" THEN raw.value ELSE None
        code0 == IF raw.kind = "json" THEN OK ELSE BAD_REQUEST
        empty == VDict(<<>>)
    IN  IF ~ Truthy(request)
        THEN [s |-> s, called |-> FALSE, status |-> code0, body |-> Written(empty, code0)]
        ELSE IF StripSlashes(path) \notin Router
        THEN [s |-> s, called |-> FALSE, status |-> NOT_FOUND,
              body |-> Written(empty, NOT_FOUND)]
        ELSE With(MethodHandler(s, request, h),
                  LAMBDA r : IF r.out = "raise"
                             THEN [s |-> r.s, called |-> TRUE, mh |-> r, status |-> code0,
                                   body |-> Written(empty, code0)]
                             ELSE [s |-> r.s, called |-> TRUE, mh |-> r,
                                   status |-> r.code, body |-> Written(r.val, r.code)])

\* do_POST on what was read off the connection: the status sent, the body
\* written, and the call of method_handler when there was one
DoPost(s, raw, path, h) ==
    LET request == IF raw.kind = "json" THEN raw.value ELSE None
        code0 == IF raw.kind = "json" THEN OK ELSE BAD_REQUEST
        empty == VDict(<<>>)
    IN  IF ~ Truthy(request)
        THEN [s |-> s, called |-> FALSE, status |-> code0, body |-> Written(empty, code0)]
        ELSE IF StripSlashes(path) \notin Router
        THEN [s |-> s, called |-> FALSE, status |-> NOT_FOUND,
              body |-> Written(empty, NOT_FOUND)]
        ELSE With(MethodHandler(s, request, h),
                  LAMBDA r : IF r.out = "raise"
                             THEN [s |-> r.s, called |-> TRUE, mh |-> r, status |-> INTERNAL_ERROR,
                                   body |-> Written(empty, INTERNAL_ERROR)]
                             ELSE [s |-> r.s, called |-> TRUE, mh |-> r,
                                   status |-> r.code, body |-> Written(r.val, r.code)])

\* ------------------------------------------------------------ traffic
Attempts(log) == SelectSeq(log, LAMBDA ev : ev.e = "attempt")

Connects(log) == SelectSeq(log, LAMBDA ev : ev.e = "connect")

NoCall == [op |-> "none"]

NoHist == [op |-> "none"]

\* ------------------------------------------------------------ data
\* json.dumps(["music", "books"])
InterestsJson == <<"[", "\"", "music", "\"", ",", " ", "\"", "books", "\"", "]">>

\* The backend at the start: client 1 has interests, client 2 has none.
InitDb == [k \in {<<"i", ":", "1">>} |-> [val |-> InterestsJson, ttl |-> 0]]

StoreKeys == {<<"i", ":", "1">>, <<"i", ":", "2">>, <<"uid", ":", "k">>}

StoreValues == {VFloat(15), VFloat(30)}


\* ------------------------------------------------------------ Store calls
\* A caller calls one Store method; the call runs to its end.
Outcome(op, key, orc, r) ==
    [op |-> op, key |-> key, orc |-> orc, h0 |-> client, out |-> r.out,
     exc |-> r.exc, val |-> r.val, log |-> r.s.log]

CallGet ==
    /\ last = NoCall
    /\ \E key \in StoreKeys, orc \in Oracles :
         \E r \in {StoreGet(StoreState(orc), key)} :
             /\ client' = r.s.client
             /\ db' = r.s.db
             /\ last' = Outcome("get", key, orc, r)
    /\ hist' = NoHist
    /\ UNCHANGED <<objs, thr, retries, hour>>

CallCacheGet ==
    /\ last = NoCall
    /\ \E key \in StoreKeys, orc \in Oracles :
         \E r \in {StoreCacheGet(StoreState(orc), key)} :
             /\ client' = r.s.client
             /\ db' = r.s.db
             /\ last' = Outcome("cache_get", key, orc, r)
    /\ hist' = NoHist
    /\ UNCHANGED <<objs, thr, retries, hour>>

CallCacheSet ==
    /\ last = NoCall
    /\ \E key \in StoreKeys, value \in StoreValues, orc \in Oracles :
         \E r \in {StoreCacheSet(StoreState(orc), key, value, TTL)} :
             /\ client' = r.s.client
             /\ db' = r.s.db
             /\ last' = Outcome("cache_set", key, orc, r)
    /\ hist' = NoHist
    /\ UNCHANGED <<objs, thr, retries, hour>>

\* The backend drops a key whose time-to-live has run out.
Expire ==
    /\ last = NoCall
    /\ \E key \in DOMAIN db :
         /\ db[key].ttl > 0
         /\ db' = [k \in DOMAIN db \ {key} |-> db[k]]
    /\ hist' = NoHist
    /\ UNCHANGED <<objs, thr, retries, client, hour, last>>

\* The caller has the outcome of its call; the next call can be made.  The
\* handles the call left behind are gone: the one in use is the only handle
\* there is, and handles are numbered from it again.
Finish ==
    /\ last # NoCall
    /\ last' = NoCall
    /\ client' = 0
    /\ UNCHANGED <<objs, thr, retries, db, hour, hist>>

\* ------------------------------------------------------------ scoring calls
Phone == VInt(<<"7", "9", "1", "7", "5", "0", "0", "2", "0", "4", "0">>)

Email == VStr(<<"a", "@", "b">>)

Birthday == VStr(<<"0", "1", ".", "0", "1", ".", "2", "0", "0", "0">>)

ScoreArgs ==
    { [phone |-> id.phone, email |-> email, birthday |-> id.birthday,
       gender |-> gender, first_name |-> id.first_name, last_name |-> id.last_name] :
        id \in { [phone |-> Phone, birthday |-> None,
                  first_name |-> None, last_name |-> None],
                 [phone |-> None, birthday |-> Birthday,
                  first_name |-> VStr(<<"a">>), last_name |-> VStr(<<"b">>)],
                 [phone |-> None, birthday |-> Birthday,
                  first_name |-> VStr(<<"a", "b">>), last_name |-> None] },
        email \in {None, Email},
        gender \in {None, VInt(<<"0">>)} }

ClientIds == {VInt(<<"1">>), VInt(<<"2">>)}

\* the fields the cache key of get_score is said to rest on
Ident(a) == <<a.first_name, a.last_name, a.phone, a.birthday>>

LastOf(q) == q[Len(q)]

\* every Store operation of the call got its answer from the backend
Reached(log, computed) ==
    LET gets == SelectSeq(log, LAMBDA ev : ev.e = "attempt" /\ ev.cmd = "get")
        sets == SelectSeq(log, LAMBDA ev : ev.e = "attempt" /\ ev.cmd = "setex")
    IN  /\ gets # <<>> /\ LastOf(gets).out = "ok"
        /\ computed => (sets # <<>> /\ LastOf(sets).out = "ok")

\* A caller calls get_score; the call runs to its end.
CallGetScore ==
    /\ last = NoCall
    /\ \E a \in ScoreArgs, orc \in Oracles :
         \E r \in {GetScore(StoreState(orc), a)} :
             /\ client' = r.s.client
             /\ db' = r.s.db
             /\ last' = [op |-> "get_score", args |-> a, orc |-> orc, out |-> r.out,
                         exc |-> r.exc, val |-> r.val, computed |-> r.computed,
                         log |-> r.s.log, before |-> hist]
             /\ hist' = IF r.out = "return"
                        THEN [op |-> "get_score", ident |-> Ident(a), val |-> r.val,
                              reached |-> Reached(r.s.log, r.computed)]
                        ELSE NoHist
    /\ UNCHANGED <<objs, thr, retries, hour>>

\* A caller calls get_interests; the call runs to its end.
CallGetInterests ==
    /\ last = NoCall
    /\ \E cid \in ClientIds, orc \in Oracles :
         \E r \in {GetInterests(StoreState(orc), cid)} :
             /\ client' = r.s.client
             /\ db' = r.s.db
             /\ last' = [op |-> "get_interests", cid |-> cid, orc |-> orc,
                         out |-> r.out, exc |-> r.exc, val |-> r.val, log |-> r.s.log]
    /\ UNCHANGED <<objs, thr, retries, hour, hist>>

NextScore == CallGetScore \/ CallGetInterests \/ Expire \/ Finish

\* ------------------------------------------------------------ API calls
\* A key the caller does not supply.
Absent == [t |-> "absent"]

Items(pairs) == SelectSeq(pairs, LAMBDA p : p[2] # Absent)

Body(account, login, method, token, arguments) ==
    VDict(Items(<< <<<<"account">>, account>>, <<<<"login">>, login>>,
                   <<<<"method">>, method>>, <<<<"token">>, token>>,
                   <<<<"arguments">>, arguments>> >>))

Account == VStr(<<"horns&hoofs">>)

UserLogin == VStr(<<"h&f">>)

AdminLogin == VStr(ADMIN_LOGIN)

\* the digests a client computes: of a user, of the admin at hour 0, and of
\* a user who leaves the login out
UserToken == VStr(Sha512Hex(Account.s \o UserLogin.s \o SALT))

AdminToken == VStr(Sha512Hex(NowStr(0) \o ADMIN_SALT))

NoLoginToken == VStr(Sha512Hex(Account.s \o SALT))

PhoneStr == VStr(Phone.d)

ScoreArguments ==
    { VDict(<< <<<<"phone">>, PhoneStr>>, <<<<"email">>, Email>> >>),
      VDict(<< <<<<"first_name">>, VStr(<<"a">>)>>, <<<<"last_name">>, VStr(<<"b">>)>> >>),
      VDict(<< <<<<"gender">>, VInt(<<"0">>)>>, <<<<"birthday">>, Birthday>> >>),
      VDict(<< <<<<"phone">>, PhoneStr>>, <<<<"first_name">>, VStr(<<"a">>)>>,
               <<<<"last_name">>, VStr(<<"b">>)>> >>),
      VDict(<< <<<<"phone">>, PhoneStr>>, <<<<"email">>, Email>>,
               <<<<"first_name">>, VStr(<<"a">>)>>, <<<<"last_name">>, VStr(<<"b">>)>> >>),
      VDict(<< <<<<"phone">>, PhoneStr>>, <<<<"email">>, VStr(<<>>)>> >>),
      VDict(<< <<<<"phone">>, VStr(<<"x">>)>>, <<<<"email">>, Email>> >>),
      VDict(<< <<<<"first_name">>, VStr(<<"a">>)>>, <<<<"last_name">>, None>>,
               <<<<"gender">>, VInt(<<"0">>)>> >>),
      VDict(<<>>) }

MaxIds == 2

InterestArguments ==
    { VDict(<< <<<<"client_ids">>, VList(ids)>> >>) : ids \in SeqsUpTo(ClientIds, MaxIds) }
    \cup { VDict(<< <<<<"client_ids">>, VList(<<VInt(<<"1">>)>>)>>,
                    <<<<"date">>, Birthday>> >>),
           VDict(<< <<<<"date">>, Birthday>> >>) }

Methods == {VStr(<<"online_score">>), VStr(<<"clients_interests">>), VStr(<<"foo">>)}

\* the bodies whose envelope has every key, with a value of the right type
FullBodies ==
    { Body(Account, login, method, token, arguments) :
        login \in {UserLogin, AdminLogin}, method \in Methods,
        token \in {UserToken, AdminToken},
        arguments \in ScoreArguments \cup InterestArguments }

\* the bodies with a key of the envelope left out, or null, or unknown
PartBodies ==
    { Body(Account, login, VStr(<<"online_score">>), token, arguments) :
        login \in {UserLogin, Absent, None}, token \in {UserToken, NoLoginToken, Absent, None},
        arguments \in { VDict(<< <<<<"phone">>, PhoneStr>>, <<<<"email">>, Email>> >>),
                        Absent, None } }
    \cup { Body(account, AdminLogin, method, AdminToken,
                VDict(<< <<<<"client_ids">>, VList(<<VInt(<<"1">>)>>)>> >>)) :
             account \in {Account, Absent, None},
             method \in {VStr(<<"clients_interests">>), Absent, None} }
    \cup { VDict(<< <<<<"invalid">>, VStr(<<"data">>)>> >>), VDict(<<>>) }

Bodies == FullBodies \cup PartBodies

\* the oracle of a call that asks the backend nothing
Calm == [pre |-> <<>>, tail |-> "ok"]

\* The oracles to draw for a call: one when the call makes no attempt (its
\* traffic is empty under Calm, so it never consults the oracle).
OraclesFor(log) == IF log = <<>> THEN {Calm} ELSE Oracles

\* A caller calls method_handler with a body; the call runs to its end.
CallMethodHandler ==
    /\ last = NoCall
    /\ \E body \in Bodies :
         \E orc \in OraclesFor(MethodHandler(StoreState(Calm), body, hour).s.log) :
             \E r \in {MethodHandler(StoreState(orc), body, hour)} :
                 /\ client' = r.s.client
                 /\ db' = r.s.db
                 /\ last' = [op |-> "method_handler", body |-> body,
                             out |-> r.out, exc |-> r.exc,
                             val |-> r.val, code |-> r.code, ctx |-> r.ctx,
                             log |-> r.s.log, db0 |-> db]
    /\ hist' = NoHist
    /\ UNCHANGED <<objs, thr, retries, hour>>

\* what do_POST reads off the connection: a body that does not parse, or the
\* parsed JSON value
Raws ==
    {[kind |-> "bad"]}
    \cup { [kind |-> "json", value |-> v] :
             v \in { VDict(<<>>), VList(<<VInt(<<"1">>)>>) }
                   \cup { Body(Account, login, method, token, arguments) :
                            login \in {UserLogin, AdminLogin}, method \in Methods,
                            token \in {UserToken, AdminToken},
                            arguments \in
                              { VDict(<< <<<<"phone">>, PhoneStr>>, <<<<"email">>, Email>> >>),
                                VDict(<< <<<<"client_ids">>,
                                           VList(<<VInt(<<"1">>), VInt(<<"2">>)>>)>> >>) } } }

Paths == {<<"/", "method">>, <<"/", "method", "/">>, <<"/", "other">>}

\* A request arrives at do_POST; the handler runs to its end.
CallDoPost ==
    /\ last = NoCall
    /\ \E raw \in Raws, path \in Paths :
         \E orc \in OraclesFor(DoPost(StoreState(Calm), raw, path, hour).s.log) :
             \E r \in {DoPost(StoreState(orc), raw, path, hour)} :
                 /\ client' = r.s.client
                 /\ db' = r.s.db
                 /\ last' = [op |-> "do_POST", raw |-> raw, path |-> path,
                             called |-> r.called,
                             mh |-> IF r.called THEN r.mh ELSE NoCall,
                             status |-> r.status, written |-> r.body,
                             log |-> r.s.log, db0 |-> db]
    /\ hist' = NoHist
    /\ UNCHANGED <<objs, thr, retries, hour>>

\* The clock passes an hour.
Tick ==
    /\ last = NoCall
    /\ hour < MaxHour
    /\ hour' = hour + 1
    /\ UNCHANGED <<objs, thr, retries, client, db, last, hist>>

Next == CallMethodHandler \/ Tick \/ Expire \/ Finish

NextPost == CallDoPost \/ Tick \/ Expire \/ Finish

\* ------------------------------------------------------------ check_auth calls
\* the digests a client can hold: of the regular scheme for each account and
\* login, the admin's included, and of the admin scheme for each hour
AuthAccounts == {Account, VStr(Account.s \o UserLogin.s), VStr(<<>>), Absent}

AuthLogins == {UserLogin, AdminLogin, VStr(<<>>), Absent}

Text(v) == IF v.t = "str" THEN v.s ELSE <<>>

AuthTokens ==
    { VStr(Sha512Hex(Text(account) \o Text(login) \o SALT)) :
        account \in AuthAccounts, login \in AuthLogins }
    \cup { VStr(Sha512Hex(NowStr(h) \o ADMIN_SALT)) : h \in 0..MaxHour }
    \cup { VStr(<<>>), Absent }

\* A caller builds a MethodRequest and calls check_auth on it.
CallCheckAuth ==
    /\ last = NoCall
    /\ \E account \in AuthAccounts, login \in AuthLogins, token \in AuthTokens :
         \E req \in {MethodRequest(Body(account, login, Absent, token, Absent).items, hour)} :
             /\ req.ok
             /\ last' = [op |-> "check_auth", account |-> account, login |-> login,
                         token |-> token, ok |-> CheckAuth(req.obj, hour),
                         before |-> hist]
             /\ hist' = IF CheckAuth(req.obj, hour) /\ ~ IsAdmin(req.obj)
                        THEN [op |-> "check_auth", account |-> account, login |-> login,
                              token |-> token]
                        ELSE NoHist
    /\ UNCHANGED <<objs, thr, retries, client, db, hour>>

NextAuth == CallCheckAuth \/ Tick \/ Finish

\* ------------------------------------------------------------ field calls
\* the digit strings a phone is given as: up to MaxLead leading digits, then
\* 8, 9 or 10 more
MaxLead == 2

PhoneTails == { <<"1", "7", "5", "0", "0", "2", "0", "4">>,
                <<"9", "1", "7", "5", "0", "0", "2", "0", "4">>,
                <<"9", "1", "7", "5", "0", "0", "2", "0", "4", "0">> }

PhoneStrings ==
    { lead \o tail : lead \in SeqsUpTo({"0", "7", "8"}, MaxLead), tail \in PhoneTails }

\* A phone field of a request object is set to a digit string.
CallPhoneField ==
    /\ last = NoCall
    /\ \E s \in PhoneStrings :
         \E r \in {FieldSet(Field(<<"phone">>, "Phone", FALSE, TRUE), VStr(s), hour)} :
             last' = [op |-> "phone_field", value |-> s, ok |-> r.ok, err |-> r.err,
                      val |-> r.val]
    /\ hist' = NoHist
    /\ UNCHANGED <<objs, thr, retries, client, db, hour>>

NextPhone == CallPhoneField \/ Finish

\* the well-formed dates a birthday is given as, around the clock's day, the
\* day 70 years before it and the day 70 * 365 days before it
BirthdayStrings ==
    { d \o <<".">> \o m \o <<".">> \o y :
        d \in {<<"0", "1">>, <<"0", "2">>, <<"1", "7">>, <<"1", "8">>, <<"1", "9">>},
        m \in {<<"0", "1">>, <<"1", "1">>, <<"1", "2">>},
        y \in {<<"1", "9", "5", "6">>, <<"1", "9", "5", "7">>, <<"2", "0", "0", "0">>,
               <<"2", "0", "2", "6">>, <<"2", "0", "2", "7">>} }

\* A birthday field of a request object is set to a date string.
CallBirthDayField ==
    /\ last = NoCall
    /\ \E s \in BirthdayStrings :
         \E r \in {FieldSet(Field(<<"birthday">>, "BirthDay", FALSE, TRUE), VStr(s), hour)} :
             last' = [op |-> "birthday_field", value |-> s, ok |-> r.ok, err |-> r.err,
                      val |-> r.val]
    /\ hist' = NoHist
    /\ UNCHANGED <<objs, thr, retries, client, db, hour>>

NextBirthday == CallBirthDayField \/ Tick \/ Finish

\* ------------------------------------------------------------ request objects
MaxObjects == 2

\* the constructions callers make: the class and the keyword arguments
Kwargs ==
    { [cls |-> "OnlineScoreRequest", items |-> items] :
        items \in { << <<<<"first_name">>, VStr(<<"a">>)>>, <<<<"last_name">>, VStr(<<"b">>)>> >>,
                    << <<<<"first_name">>, VStr(<<"c">>)>>, <<<<"gender">>, VInt(<<"1">>)>> >>,
                    << <<<<"last_name">>, None>>, <<<<"email">>, VStr(<<"x">>)>>,
                       <<<<"first_name">>, VStr(<<"d">>)>> >> } }
    \cup { [cls |-> "ClientsInterestsRequest", items |-> items] :
             items \in { << <<<<"client_ids">>, VList(<<VInt(<<"1">>)>>)>>,
                            <<<<"date">>, Birthday>> >>,
                         << <<<<"client_ids">>, VList(<<VInt(<<"2">>)>>)>> >> } }
    \cup { [cls |-> "MethodRequest", items |-> items] :
             items \in { << <<<<"login">>, UserLogin>>,
                            <<<<"method">>, VStr(<<"online_score">>)>> >>,
                         << <<<<"login">>, AdminLogin>>, <<<<"account">>, Account>> >>,
                         << <<<<"method">>, VStr(<<"foo">>)>>,
                            <<<<"invalid">>, VStr(<<"data">>)>> >> } }

\* instance.__dict__[self.name] = value, with every instance of the class
\* written: what a descriptor that kept the value on itself would give
BindOnDescriptor(os, o, name, value) ==
    [i \in DOMAIN os |-> IF os[i].cls = os[o].cls
                         THEN [os[i] EXCEPT !.dict = DictSet(@, name, value)]
                         ELSE os[i]]

\* instance.__dict__[self.name] = value
Bind(os, o, name, value) == [os EXCEPT ![o].dict = DictSet(@, name, value)]

\* cls(**kwargs) begins: the instance exists, its __dict__ is empty
New ==
    /\ Len(objs) < MaxObjects
    /\ \E k \in Kwargs :
         objs' = Append(objs, [cls |-> k.cls, kwargs |-> k.items, pos |-> 1,
                               raised |-> FALSE, dict |-> <<>>])
    /\ UNCHANGED <<thr, retries, client, db, hour, last, hist>>

\* One pass of the loop of __init__ of the object o: setattr(self, key, value)
SetAttr(o) ==
    /\ ~ objs[o].raised
    /\ objs[o].pos <= Len(objs[o].kwargs)
    /\ LET key == objs[o].kwargs[objs[o].pos][1]
           value == objs[o].kwargs[objs[o].pos][2]
           fields == CASE objs[o].cls = "OnlineScoreRequest" -> OnlineScoreFields
                       [] objs[o].cls = "ClientsInterestsRequest" -> ClientsInterestsFields
                       [] objs[o].cls = "MethodRequest" -> MethodRequestFields
           stepped == [objs EXCEPT ![o].pos = @ + 1]
           failed == [objs EXCEPT ![o].raised = TRUE]
       IN  IF objs[o].cls = "MethodRequest" /\ key \notin DOMAIN fields
           THEN objs' = failed
           ELSE IF key \in DOMAIN fields
           THEN \E r \in {FieldSet(fields[key], value, hour)} :
                    objs' = IF r.ok THEN Bind(stepped, o, key, r.val) ELSE failed
           ELSE objs' = Bind(stepped, o, key, value)
    /\ UNCHANGED <<thr, retries, client, db, hour, last, hist>>

\* The call that held the object o has ended: the object is gone.
Collect(o) ==
    /\ objs' = SubSeq(objs, 1, o - 1) \o SubSeq(objs, o + 1, Len(objs))
    /\ UNCHANGED <<thr, retries, client, db, hour, last, hist>>

NextObjects == New \/ \E o \in DOMAIN objs : SetAttr(o) \/ Collect(o)

\* ------------------------------------------------------------ envelope calls
MaxKeys == 3

\* the items an envelope is made of: declared keys with a value of the right
\* type or of a wrong one, and keys that are not declared
EnvelopePairs ==
    { <<<<"login">>, UserLogin>>, <<<<"login">>, VInt(<<"5">>)>>,
      <<<<"method">>, VStr(<<"online_score">>)>>, <<<<"token">>, None>>,
      <<<<"invalid">>, VStr(<<"data">>)>>, <<<<"extra">>, None>> }

\* the mappings of up to MaxKeys items, no key twice, in every order
Envelopes ==
    { items \in SeqsUpTo(EnvelopePairs, MaxKeys) :
        \A i, j \in 1..Len(items) : i # j => items[i][1] # items[j][1] }

\* A caller calls method_handler with an envelope; the call runs to its end.
CallEnvelope ==
    /\ last = NoCall
    /\ \E items \in Envelopes :
         \E orc \in OraclesFor(MethodHandler(StoreState(Calm), VDict(items), hour).s.log) :
             \E r \in {MethodHandler(StoreState(orc), VDict(items), hour)} :
                 /\ client' = r.s.client
                 /\ db' = r.s.db
                 /\ last' = [op |-> "envelope", items |-> items,
                             req |-> MethodRequest(items, hour),
                             out |-> r.out, exc |-> r.exc,
                             val |-> r.val, code |-> r.code, log |-> r.s.log]
    /\ hist' = NoHist
    /\ UNCHANGED <<objs, thr, retries, hour>>

NextEnvelope == CallEnvelope \/ Tick \/ Finish

\* ------------------------------------------------------------ concurrent callers
\* The callers that share one Store, each a thread inside
\* Store._execute_with_retry, one step of the interpreter at a time.
MaxThreads == 2

Threads == 1..MaxThreads

NoHandle == -1

\* a caller outside the Store
Idle == [pc |-> "idle", attempt |-> 0, made |-> 0, new |-> NoHandle]

\* the client objects some reference still reaches
InUse == ({client} \cup {thr[t].new : t \in Threads}) \ {NoHandle}

\* the client objects whose construction has begun and not ended
Building == {thr[t].new : t \in {u \in Threads : thr[u].pc = "init"}}

\* the object a construction allocates: one that no reference reaches
NewHandle == CHOOSE h \in 0..(MaxThreads + 1) :
                 h \notin InUse /\ \A g \in 0..(h - 1) : g \in InUse

\* A caller enters get, cache_get or cache_set: the loop over
\* range(self.retries) begins.
Begin(t) ==
    /\ thr[t].pc = "idle"
    /\ thr' = [thr EXCEPT ![t] = [pc |-> IF retries = 0 THEN "done" ELSE "call",
                                  attempt |-> 0, made |-> 0, new |-> NoHandle]]
    /\ UNCHANGED <<objs, retries, client, db, hour, last, hist>>

\* func(*args): one attempt, and what the loop does with its outcome
Call(t) ==
    /\ thr[t].pc = "call"
    /\ \E o \in Outcomes :
         thr' = [thr EXCEPT ![t].made = @ + 1,
                            ![t].pc = IF o = "conn" /\ thr[t].attempt # retries - 1
                                      THEN "build" ELSE "done"]
    /\ UNCHANGED <<objs, retries, client, db, hour, last, hist>>

\* _connect with the new object bound to self.client before its construction
\* has ended
BuildPublishes(t) ==
    /\ thr[t].pc = "build"
    /\ thr' = [thr EXCEPT ![t].new = NewHandle, ![t].pc = "init"]
    /\ client' = NewHandle
    /\ UNCHANGED <<objs, retries, db, hour, last, hist>>

\* _connect: redis.Redis(...) allocates the new client object
Build(t) ==
    /\ thr[t].pc = "build"
    /\ thr' = [thr EXCEPT ![t].new = NewHandle, ![t].pc = "init"]
    /\ UNCHANGED <<objs, retries, client, db, hour, last, hist>>

\* _connect: redis.Redis.__init__ returns, the object is completely built
InitDone(t) ==
    /\ thr[t].pc = "init"
    /\ thr' = [thr EXCEPT ![t].pc = "assign"]
    /\ UNCHANGED <<objs, retries, client, db, hour, last, hist>>

\* _connect: self.client = <the object built>; the loop goes to its next pass
Assign(t) ==
    /\ thr[t].pc = "assign"
    /\ client' = thr[t].new
    /\ thr' = [thr EXCEPT ![t].new = NoHandle, ![t].attempt = @ + 1, ![t].pc = "call"]
    /\ UNCHANGED <<objs, retries, db, hour, last, hist>>

\* The caller has the value or the exception of its call.
End(t) ==
    /\ thr[t].pc = "done"
    /\ thr' = [thr EXCEPT ![t] = Idle]
    /\ UNCHANGED <<objs, retries, client, db, hour, last, hist>>

NextThreads ==
    \E t \in Threads :
        Begin(t) \/ Call(t) \/ Build(t) \/ InitDone(t) \/ Assign(t) \/ End(t)

\* Store.__init__
InitStore ==
    /\ retries \in 0..MaxRetries
    /\ client = 0
    /\ db = InitDb
    /\ hour = 0
    /\ last = NoCall
    /\ hist = NoHist
    /\ thr = [t \in Threads |-> Idle]
    /\ objs = <<>>

NextStore == CallGet \/ CallCacheGet \/ CallCacheSet \/ Expire \/ Finish

SpecStore == InitStore /\ [][NextStore]_vars

SpecScore == InitStore /\ [][NextScore]_vars

Spec == InitStore /\ [][Next]_vars

SpecPost == InitStore /\ [][NextPost]_vars

SpecThreads == InitStore /\ [][NextThreads]_vars

SpecAuth == InitStore /\ [][NextAuth]_vars

SpecPhone == InitStore /\ [][NextPhone]_vars

SpecBirthday == InitStore /\ [][NextBirthday]_vars

SpecEnvelope == InitStore /\ [][NextEnvelope]_vars

SpecObjects == InitStore /\ [][NextObjects]_vars

\* ------------------------------------------------------------ claims: Store
StoreOps == {"get", "cache_get", "cache_set"}

AllConn(o) == o.tail = "conn" /\ \A i \in 1..Len(o.pre) : o.pre[i] = "conn"

\* C1: with retries = N >= 1 and a backend that answers every attempt with a
\* connection error, Store.get makes exactly N attempts and raises the
\* connection error; no Store operation makes more than N attempts.
C1_GetRetriesExactly ==
    /\ (last.op = "get" /\ retries >= 1 /\ AllConn(last.orc))
          => /\ Len(Attempts(last.log)) = retries
             /\ last.out = "raise" /\ last.exc = "ConnectionError"
    /\ last.op \in StoreOps => Len(Attempts(last.log)) <= retries

C1_Witness ==
    /\ last.op = "get" /\ retries >= 2 /\ AllConn(last.orc)
    /\ Len(Attempts(last.log)) = retries /\ last.out = "raise"

\* C2: cache_get and cache_set never raise to their caller, whatever failure
\* the backend produces on each attempt and for every retry count.
C2_CacheNeverRaises ==
    last.op \in {"cache_get", "cache_set"} => last.out = "return"

\* C3: within one Store operation, the attempt that follows a failed attempt
\* is issued against the handle built after that failure, never against the
\* handle on which the failed attempt ran.
C3_RetryOnNewHandle ==
    last.op \in StoreOps =>
        \A i \in 2..Len(last.log) :
            last.log[i].e = "attempt" =>
                /\ last.log[i - 1].e = "connect"
                /\ last.log[i].handle = last.log[i - 1].handle
                /\ \A j \in 1..(i - 1) :
                       last.log[j].e = "attempt" => last.log[j].handle # last.log[i].handle

\* ------------------------------------------------------------ claims: scoring
\* C6: of two consecutive get_score calls with the same (first_name, last_name,
\* phone, birthday), both of which reached the cache and with no entry expired
\* in between, the second returns the value of the first, and is a cache hit:
\* it computes nothing and issues no cache write; email and gender may differ.
C6_SecondCallIsHit ==
    (/\ last.op = "get_score"
     /\ last.before.op = "get_score"
     /\ last.before.ident = Ident(last.args)
     /\ last.before.reached
     /\ Reached(last.log, last.computed))
    => /\ last.out = "return"
       /\ last.val = last.before.val
       /\ ~ last.computed
       /\ \A i \in 1..Len(last.log) :
              last.log[i].e = "attempt" => last.log[i].cmd # "setex"

C6_Witness ==
    /\ last.op = "get_score"
    /\ last.before.op = "get_score"
    /\ last.before.ident = Ident(last.args)
    /\ last.before.reached
    /\ Reached(last.log, last.computed)
    /\ last.args.email = None /\ last.val = VFloat(30)

\* ------------------------------------------------------------ claims: API
Handled == last.op = "method_handler"

\* the envelope of the handled body is valid, and check_auth of it is auth
EnvelopeAuth(auth) ==
    /\ Handled
    /\ \E env \in {MethodRequest(last.body.items, hour)} :
           env.ok /\ (CheckAuth(env.obj, hour) <=> auth)

Authenticated == EnvelopeAuth(TRUE)

\* the values the handled body supplies
Arguments == DictGet(last.body.items, <<"arguments">>)

MethodIs(name) == Handled /\ DictGet(last.body.items, <<"method">>) = VStr(<<name>>)

ByAdmin == DictGet(last.body.items, <<"login">>) = VStr(ADMIN_LOGIN)

\* the db of the backend is as it was when the call began
Untouched == db = last.db0

\* C4: a request whose envelope is valid and whose check_auth is false is
\* answered ("Forbidden", 403) whatever its method and arguments, and no
\* store operation is performed for it.
C4_AuthBeforeRouting ==
    EnvelopeAuth(FALSE) =>
        /\ last.out = "return"
        /\ last.val = VStr(<<"Forbidden">>)
        /\ last.code = FORBIDDEN
        /\ last.log = <<>>
        /\ Untouched

C4_Witness ==
    /\ MethodIs("foo")
    /\ EnvelopeAuth(FALSE)
    /\ last.code = FORBIDDEN

\* the body supplies no value for key: the key is missing, or null
Lacks(body, key) == ~ HasKey(body.items, key) \/ DictGet(body.items, key) = None

\* C5: method_handler answers INVALID_REQUEST (422) for every body that lacks
\* login, token, method or arguments, the key being null or not supplied.
C5_MissingRequiredIs422 ==
    (/\ Handled
     /\ \E key \in {<<"login">>, <<"token">>, <<"method">>, <<"arguments">>} :
            Lacks(last.body, key))
    => (last.out = "return" /\ last.code = INVALID_REQUEST)

Filled(items, key) == DictGet(items, key) \notin {None, VStr(<<>>)}

\* one of the three pairs is filled in the arguments as supplied
PairFilled(items) ==
    \/ Filled(items, <<"phone">>) /\ Filled(items, <<"email">>)
    \/ Filled(items, <<"first_name">>) /\ Filled(items, <<"last_name">>)
    \/ Filled(items, <<"gender">>) /\ Filled(items, <<"birthday">>)

\* an authenticated online_score request whose arguments are valid and
\* satisfy the pair rule
ScoreRequest ==
    /\ MethodIs("online_score")
    /\ Arguments.t = "dict"
    /\ PairFilled(Arguments.items)
    /\ Authenticated
    /\ OnlineScoreRequest(Arguments.items, hour).ok

\* C7: for an authenticated admin, an online_score request whose arguments
\* satisfy the pair rule returns OK with score exactly 42, and the store is
\* bypassed: no attempt reaches the backend and its contents are unchanged.
C7_AdminScoreBypassesStore ==
    (ScoreRequest /\ ByAdmin) =>
        /\ last.out = "return"
        /\ last.code = OK
        /\ last.val = VDict(<< <<<<"score">>, VInt(<<"4", "2">>)>> >>)
        /\ last.log = <<>>
        /\ Untouched

C7_Witness ==
    /\ ScoreRequest /\ ByAdmin
    /\ last.code = OK
    /\ \E key \in DOMAIN last.db0 : last.db0[key].ttl > 0

\* an authenticated clients_interests request with a valid client_ids list
InterestsRequest ==
    /\ MethodIs("clients_interests")
    /\ Arguments.t = "dict"
    /\ DictGet(Arguments.items, <<"client_ids">>).t = "list"
    /\ Authenticated
    /\ ClientsInterestsRequest(Arguments.items, hour).ok

IdsOf == DictGet(Arguments.items, <<"client_ids">>).elems

\* the backend answered every attempt of the call
Answered(log) == \A i \in 1..Len(log) : log[i].e = "attempt" => log[i].out = "ok"

\* the attempts of log before the j-th event that the backend answered
OkBefore(log, j) ==
    Cardinality({k \in 1..(j - 1) : log[k].e = "attempt" /\ log[k].out = "ok"})

\* what the backend d holds for client cid, parsed
StoredInterests(d, cid) ==
    IF (<<"i", ":">> \o cid.d) \in DOMAIN d
    THEN VList(<<VStr(<<"music">>), VStr(<<"books">>)>>)
    ELSE VList(<<>>)

\* C8: for an authenticated clients_interests request with a valid client_ids
\* list, the store is read once per listed id, in the order given and once
\* per occurrence, under key "i:" + id (a read that fails is tried again
\* under the same key), and the response is OK with a mapping whose keys are
\* exactly the string forms of the ids, each mapped to the stored list when
\* the key is present and to the empty list when it is absent.
C8_InterestsReadInOrder ==
    InterestsRequest =>
    /\ (retries >= 1 /\ Answered(last.log)) => last.out = "return"
    /\ last.out = "return" =>
          /\ last.code = OK
          /\ OkBefore(last.log, Len(last.log) + 1) = Len(IdsOf)
          /\ \A j \in 1..Len(last.log) :
                 last.log[j].e = "attempt" =>
                     /\ last.log[j].cmd = "get"
                     /\ last.log[j].key = <<"i", ":">> \o IdsOf[OkBefore(last.log, j) + 1].d
          /\ last.val.t = "dict"
          /\ {last.val.items[i][1] : i \in 1..Len(last.val.items)}
                 = {IdsOf[i].d : i \in 1..Len(IdsOf)}
          /\ Len(last.val.items) = Cardinality({IdsOf[i].d : i \in 1..Len(IdsOf)})
          /\ \A i \in 1..Len(IdsOf) :
                 DictGet(last.val.items, IdsOf[i].d) = StoredInterests(last.db0, IdsOf[i])
          /\ Untouched

C8_Witness ==
    /\ InterestsRequest /\ last.out = "return"
    /\ Len(IdsOf) = 2 /\ IdsOf[1] = IdsOf[2]
    /\ Len(Attempts(last.log)) > 2
    /\ last.val = VDict(<< <<<<"1">>, VList(<<VStr(<<"music">>), VStr(<<"books">>)>>)>> >>)

\* every attempt of the call was answered with a connection error
Unreachable(log) == \A i \in 1..Len(log) : log[i].e = "attempt" => log[i].out = "conn"

\* the score the arguments add up to, in tenths
Additive(items) ==
    (IF Filled(items, <<"phone">>) THEN 15 ELSE 0)
    + (IF Filled(items, <<"email">>) THEN 15 ELSE 0)
    + (IF Filled(items, <<"birthday">>) /\ DictGet(items, <<"gender">>) # None
       THEN 15 ELSE 0)
    + (IF Filled(items, <<"first_name">>) /\ Filled(items, <<"last_name">>)
       THEN 5 ELSE 0)

\* C10: when the backend answers every attempt with a connection error, an
\* authenticated non-admin online_score request with valid arguments that
\* satisfy the pair rule returns OK with the additively computed score; the
\* backend's contents are unchanged.
C10_ScoreSurvivesOutage ==
    (ScoreRequest /\ ~ ByAdmin /\ Unreachable(last.log)) =>
        /\ last.out = "return"
        /\ last.code = OK
        /\ last.val = VDict(<< <<<<"score">>, VFloat(Additive(Arguments.items))>> >>)
        /\ Untouched

C10_Witness ==
    /\ ScoreRequest /\ ~ ByAdmin /\ Unreachable(last.log)
    /\ retries = 2
    /\ Len(Attempts(last.log)) = 4
    /\ last.val = VDict(<< <<<<"score">>, VFloat(30)>> >>)

\* ------------------------------------------------------------ claims: do_POST
\* do_POST handed a clients_interests request to method_handler
PostedInterests ==
    /\ last.op = "do_POST"
    /\ last.called
    /\ last.raw.value.t = "dict"
    /\ DictGet(last.raw.value.items, <<"method">>) = VStr(<<"clients_interests">>)

\* the call ended on the final attempt of a Store.get, failed by the connection
GetFailed(log) ==
    /\ log # <<>>
    /\ LastOf(log).e = "attempt"
    /\ LastOf(log).cmd = "get"
    /\ LastOf(log).out = "conn"

\* C9: when Store.get fails with a connection error on its final attempt
\* during a clients_interests call, for any id of the list, method_handler
\* lets the error through and do_POST answers 500 with the default error text
\* as the only content, never a partial mapping.
C9_GetFailureIs500 ==
    (PostedInterests /\ GetFailed(last.log)) =>
        /\ last.mh.out = "raise"
        /\ last.mh.exc = "ConnectionError"
        /\ last.status = INTERNAL_ERROR
        /\ last.written = [error |-> VStr(<<"Internal Server Error">>),
                           code |-> INTERNAL_ERROR]

C9_Witness ==
    /\ PostedInterests /\ GetFailed(last.log)
    /\ OkBefore(last.log, Len(last.log)) >= 1
    /\ last.status = INTERNAL_ERROR

\* ------------------------------------------------------------ claims: pair rule
\* an authenticated online_score request whose arguments all validate
ValidScoreRequest ==
    /\ MethodIs("online_score")
    /\ Arguments.t = "dict"
    /\ Authenticated
    /\ OnlineScoreRequest(Arguments.items, hour).ok

\* C11: for an authenticated caller, admin or regular, an online_score
\* request whose fields all validate is accepted iff one of the three pairs
\* has both members non-absent and non-empty (gender 0 counts as present);
\* otherwise it is answered INVALID_REQUEST with the fixed message, with no
\* score produced and no store operation performed.
C11_PairRule ==
    ValidScoreRequest =>
        IF PairFilled(Arguments.items)
        THEN last.out = "return" =>
                 /\ last.code = OK
                 /\ last.val.t = "dict"
                 /\ HasKey(last.val.items, <<"score">>)
        ELSE /\ last.out = "return"
             /\ last.code = INVALID_REQUEST
             /\ last.val = VStr(<<"at least one pair must be filled">>)
             /\ last.log = <<>>
             /\ Untouched

\* the pair of gender 0 and a birthday is accepted
C11_Witness ==
    /\ ValidScoreRequest
    /\ Filled(Arguments.items, <<"gender">>) /\ Filled(Arguments.items, <<"birthday">>)
    /\ ~ Filled(Arguments.items, <<"phone">>)
    /\ last.code = OK

\* ------------------------------------------------------------ claims: concurrency
\* C12: under every interleaving of the callers that share one Store, the
\* shared handle is at every moment a completely built client (the handle is
\* replaced in one step, after the new client is built), and every operation
\* of every caller makes at most retries attempts.
C12_HandleAlwaysBuilt ==
    /\ client \notin Building
    /\ \A t \in Threads : thr[t].made <= retries

\* two callers are inside _connect at once, and one has made its last attempt
C12_Witness ==
    /\ \E t, u \in Threads :
           /\ t # u
           /\ thr[t].pc = "init"
           /\ thr[u].pc = "assign"
    /\ client # 0

\* ------------------------------------------------------------ claims: check_auth
\* "YYYYMMDDHH" of the clock at hour h of the first day
HourStamp(h) ==
    <<"2", "0", "2", "6", "1", "1", "0", "1">>
    \o <<Digits[(h \div 10) + 1], Digits[(h % 10) + 1]>>

\* C13: check_auth takes the admin branch iff login is "admin"; there it
\* accepts iff token is the digest of the current hour's "YYYYMMDDHH" + "42"
\* (so the token of another hour is rejected); on the regular branch it
\* accepts iff token is the digest of account (empty when absent) + login +
\* "Otus".  No login is accepted with the digest of the other scheme.
C13_CheckAuthBranches ==
    last.op = "check_auth" =>
        (last.ok <=>
            IF last.login = VStr(<<"admin">>)
            THEN last.token = VStr(Sha512Hex(HourStamp(hour) \o <<"4", "2">>))
            ELSE last.token = VStr(Sha512Hex(Text(last.account) \o Text(last.login)
                                             \o <<"O", "t", "u", "s">>)))

\* the admin's token of hour 0 is rejected at hour 1
C13_Witness ==
    /\ last.op = "check_auth"
    /\ last.login = VStr(<<"admin">>)
    /\ last.token = VStr(Sha512Hex(HourStamp(0) \o <<"4", "2">>))
    /\ hour = 1
    /\ ~ last.ok

\* ------------------------------------------------------------ claims: retry
\* what the oracle o answers to the i-th attempt of the call
OracleAt(o, i) == IF i <= Len(o.pre) THEN o.pre[i] ELSE o.tail

\* the k-th attempt is the first that does not fail by the connection
FirstOther(o, k) ==
    /\ OracleAt(o, k) # "conn"
    /\ \A i \in 1..(k - 1) : OracleAt(o, i) = "conn"

\* the k-th attempt is the first one the backend answers
FirstAnswered(o, k) == FirstOther(o, k) /\ OracleAt(o, k) = "ok"

\* C14: for a Store with retries = N, if attempt k (1 <= k <= N) is the first
\* that does not fail with a connection error, Store.get ends after exactly
\* k attempts and k - 1 reconnects and makes no further attempt; when the
\* backend answers attempt k, Store.get returns the value of that attempt.
C14_ReturnsAtFirstAnswer ==
    last.op = "get" =>
        \A k \in 1..retries :
            /\ FirstOther(last.orc, k) =>
                   /\ Len(Attempts(last.log)) = k
                   /\ Len(Connects(last.log)) = k - 1
                   /\ LastOf(last.log).e = "attempt"
            /\ FirstAnswered(last.orc, k) =>
                   /\ last.out = "return"
                   /\ last.val = IF last.key \in DOMAIN db THEN VStr(db[last.key].val)
                                 ELSE None

C14_Witness ==
    /\ last.op = "get"
    /\ FirstAnswered(last.orc, 2)
    /\ last.out = "return"
    /\ last.val = VStr(InterestsJson)
    /\ Len(Connects(last.log)) = 1

\* ------------------------------------------------------------ claims: score floor
\* C15: an authenticated non-admin online_score request whose arguments hold a
\* valid phone and a non-empty valid email is answered 200 with a numeric
\* score >= 3.0 in every store state earlier API calls can leave, cache hits
\* included (stated for the calls whose every attempt the backend answers).
C15_PhoneEmailAtLeast3 ==
    (/\ ScoreRequest /\ ~ ByAdmin
     /\ Filled(Arguments.items, <<"phone">>) /\ Filled(Arguments.items, <<"email">>)
     /\ Answered(last.log))
    => /\ last.out = "return"
       /\ last.code = OK
       /\ DictGet(last.val.items, <<"score">>).t = "float"
       /\ DictGet(last.val.items, <<"score">>).x >= 30

\* ------------------------------------------------------------ claims: fields
\* C16: PhoneField validation succeeds for every string of exactly 11 digits
\* whose first digit is 7, binding the equal integer, and fails for every
\* digit string with another digit count or another leading digit.
C16_PhoneElevenDigits ==
    last.op = "phone_field" =>
        /\ last.ok <=> (Len(last.value) = 11 /\ last.value[1] = "7")
        /\ last.ok => last.val = VInt(last.value)

\* the date a string dd.mm.yyyy names
DateOf(s) == [y |-> StrNat(SubSeq(s, 7, 10)), m |-> StrNat(SubSeq(s, 4, 5)),
              d |-> StrNat(SubSeq(s, 1, 2))]

\* the day a is before the day b
DayBefore(a, b) ==
    \/ a.y < b.y
    \/ a.y = b.y /\ a.m < b.m
    \/ a.y = b.y /\ a.m = b.m /\ a.d < b.d

\* the day the clock shows (the clock stays within the first day)
Today == [y |-> 2026, m |-> 11, d |-> 1]

\* C17: BirthDayField validation of a well-formed date succeeds iff the date
\* is on or before the current moment and strictly after the current moment
\* minus 70 years.
C17_BirthdayWindow ==
    last.op = "birthday_field" =>
        (last.ok <=>
            /\ ~ DayBefore(Today, DateOf(last.value))
            /\ DayBefore([Today EXCEPT !.y = @ - 70], DateOf(last.value)))

\* the keys of the envelope that MethodRequest declares
Declared == {<<"account">>, <<"login">>, <<"token">>, <<"arguments">>, <<"method">>}

\* the items of the mapping whose key is not declared
UnknownItems(items) == SelectSeq(items, LAMBDA p : p[1] \notin Declared)

\* C18: constructing a MethodRequest from a mapping with a key outside the
\* declared five fails with the unknown-key error wherever the key occurs in
\* the mapping, and method_handler answers INVALID_REQUEST with that error.
C18_UnknownKeyFailsFast ==
    (last.op = "envelope" /\ UnknownItems(last.items) # <<>>) =>
        /\ ~ last.req.ok
        /\ last.req.err = <<"Unknown field: ">> \o UnknownItems(last.items)[1][1]
        /\ last.out = "return"
        /\ last.code = INVALID_REQUEST
        /\ last.val = VStr(last.req.err)
        /\ last.log = <<>>

\* the handled body names neither of the two methods
OtherMethod ==
    /\ Handled
    /\ DictGet(last.body.items, <<"method">>)
         \notin {VStr(<<"online_score">>), VStr(<<"clients_interests">>)}

\* C19: an authenticated request whose method is neither online_score nor
\* clients_interests is answered ("unknown method", 404); its arguments are
\* not validated and no store operation is performed for it.
C19_UnknownMethodIs404 ==
    (OtherMethod /\ Authenticated) =>
        /\ last.out = "return"
        /\ last.val = VStr(<<"unknown method">>)
        /\ last.code = NOT_FOUND
        /\ last.ctx = <<>>
        /\ last.log = <<>>
        /\ Untouched

\* an authenticated request for the method foo whose phone no field accepts
C19_Witness ==
    /\ MethodIs("foo")
    /\ Arguments = VDict(<< <<<<"phone">>, VStr(<<"x">>)>>, <<<<"email">>, Email>> >>)
    /\ Authenticated
    /\ last.code = NOT_FOUND

\* ------------------------------------------------------------ claims: the score
\* the argument is given: neither None nor the empty string
Present(v) == v # None /\ v # VStr(<<>>)

\* the sum of the claim, in tenths
Sum(a) ==
    (IF Present(a.phone) THEN 15 ELSE 0)
    + (IF Present(a.email) THEN 15 ELSE 0)
    + (IF Present(a.birthday) /\ a.gender # None THEN 15 ELSE 0)
    + (IF Present(a.first_name) /\ Present(a.last_name) THEN 5 ELSE 0)

\* the attempts of the call that carry the command name
AttemptsOf(log, name) == SelectSeq(log, LAMBDA ev : ev.e = "attempt" /\ ev.cmd = name)

\* the backend answered no attempt of the call with an error other than a
\* connection error
NoOtherError(log) == \A i \in 1..Len(log) : log[i].e = "attempt" => log[i].out # "other"

\* C20: on a cache miss get_score returns the additive sum (gender 0 counts),
\* between 0 and 5.0, and issues one cache_set of that value under the key it
\* looked up with a time-to-live of 3600 s: one run of setex attempts, each
\* but the last failed, and the entry an answered one leaves; on a cache hit
\* it issues no cache_set.
C20_MissWritesOnce ==
    (last.op = "get_score" /\ NoOtherError(last.log)) =>
        LET gets == AttemptsOf(last.log, "get")
            sets == AttemptsOf(last.log, "setex")
        IN  IF last.computed
            THEN /\ last.out = "return"
                 /\ last.val = VFloat(Sum(last.args))
                 /\ Sum(last.args) >= 0 /\ Sum(last.args) <= 50
                 /\ Len(sets) <= retries
                 /\ retries >= 1 => sets # <<>>
                 /\ \A i \in 1..Len(sets) :
                        /\ sets[i].key = gets[1].key
                        /\ i < Len(sets) => sets[i].out = "conn"
                 /\ (sets # <<>> /\ LastOf(sets).out = "ok")
                       => /\ sets[1].key \in DOMAIN db
                          /\ db[sets[1].key] = [val |-> FloatRepr(Sum(last.args)),
                                                ttl |-> 3600]
            ELSE sets = <<>>

\* a miss with gender 0 whose cache_set is answered at its second attempt
C20_Witness ==
    /\ last.op = "get_score" /\ last.computed
    /\ last.args.gender = VInt(<<"0">>) /\ last.args.birthday # None
    /\ last.val = VFloat(35)
    /\ Len(AttemptsOf(last.log, "setex")) = 2
    /\ LastOf(AttemptsOf(last.log, "setex")).out = "ok"
    /\ db[ScoreKey(last.args)].ttl = 3600

\* the key get_score builds for the identity tuple id of a call
KeyOf(id) == ScoreKey([first_name |-> id[1], last_name |-> id[2], phone |-> id[3],
                       birthday |-> id[4]])

\* C21: two get_score calls use the same cache key only if (first_name,
\* last_name, phone, birthday) are equal in both, so a call that is answered
\* from the cache has the identity tuple of the call that wrote the entry.
C21_SameKeySameIdentity ==
    (/\ last.op = "get_score"
     /\ last.before.op = "get_score"
     /\ KeyOf(last.before.ident) = KeyOf(Ident(last.args)))
    => last.before.ident = Ident(last.args)

\* C22: do_POST answers 200 only when the request was routed to a handler
\* that returned OK; a body that does not parse is answered 400, a parsed body
\* on an unknown path 404, and every parsed body on the method path, empty
\* ones included, is passed to method_handler and answered with its code, or
\* with 500 when it raises.
C22_TransportCodes ==
    last.op = "do_POST" =>
        /\ last.status = OK
              => (last.called /\ last.mh.out = "return" /\ last.mh.code = OK)
        /\ last.raw.kind = "bad" => last.status = BAD_REQUEST
        /\ (last.raw.kind = "json" /\ StripSlashes(last.path) \notin Router)
              => last.status = NOT_FOUND
        /\ (last.raw.kind = "json" /\ StripSlashes(last.path) \in Router)
              => /\ last.called
                 /\ last.status = IF last.mh.out = "raise" THEN INTERNAL_ERROR
                                  ELSE last.mh.code

\* ------------------------------------------------------------ claims: request objects
\* the names a request object can be read by
Names == { p[1] : p \in UNION { {k.items[i] : i \in DOMAIN k.items} : k \in Kwargs } }

\* what the object ob was itself given for name, as far as its __init__ has
\* come; None when it was given nothing
Given(ob, name) ==
    IF \E i \in 1..(ob.pos - 1) : ob.kwargs[i][1] = name
    THEN ob.kwargs[CHOOSE i \in 1..(ob.pos - 1) : ob.kwargs[i][1] = name][2]
    ELSE None

\* C23: no state is shared between request objects: what is read through an
\* object is what that object was given, whatever other objects of the same
\* or another class were given in between, and a name the object was not
\* given reads as absent.
C23_NoSharedState ==
    \A o \in DOMAIN objs : \A name \in Names :
        Attr(objs[o].dict, name) = Given(objs[o], name)

\* two objects of one class hold different values for a name, and one of
\* them reads absent for a name the other holds
C23_Witness ==
    \E o, q \in DOMAIN objs :
        /\ o # q /\ objs[o].cls = objs[q].cls
        /\ \E name \in Names :
               /\ Attr(objs[o].dict, name) # None
               /\ Attr(objs[q].dict, name) # None
               /\ Attr(objs[o].dict, name) # Attr(objs[q].dict, name)
        /\ \E name \in Names :
               Attr(objs[o].dict, name) # None /\ Attr(objs[q].dict, name) = None

\* C24: on the regular branch a token that check_auth accepted for one
\* (account, login) pair is rejected for every different pair (an absent
\* value and the empty string are taken for the same value).
C24_TokenBindsPair ==
    (/\ last.op = "check_auth"
     /\ last.before.op = "check_auth"
     /\ last.login # VStr(ADMIN_LOGIN)
     /\ last.token = last.before.token
     /\ <<Text(last.account), Text(last.login)>>
          # <<Text(last.before.account), Text(last.before.login)>>)
    => ~ last.ok

====
